---- MODULE Spec2Model ----
(***************************************************************************)
(* SABLEYE: the Bateman matrix builder (dataSolver/batemanMatrix.py) and   *)
(* the fuel system, reactor and reprocessing classes (src/solver.py).      *)
(*                                                                         *)
(* SpecBuilder drives a batemanMatrix builder through addDecay alone,      *)
(* over every decay table.  SpecBuild drives it through all its build      *)
(* operations, over two decay tables and the cross section data;           *)
(* SpecExport adds the export of the matrix, a reactor holding it and a    *)
(* caller writing into it.  SpecCalls drives one fuelSystem, with a        *)
(* reactor and a reprocessing scheme, through the calls of its interface;  *)
(* SpecFuel adds a caller that writes into the arrays it shares with the   *)
(* fuel system.  Each specification leaves the other component's          *)
(* variables at their initial values.                                      *)
(***************************************************************************)
EXTENDS Integers, Sequences, FiniteSets, TLC

\* ------------------------------------------------------------------ bounds
\* longest tracked isotope list handed to batemanMatrix(...)
MaxTracked == 2
\* branching probabilities are the fractions k / ProbDen, k in 0..ProbDen
ProbDen == 2
\* most addDecay calls made on one builder
MaxDecayCalls == 2
\* most isotopes of a fuel system, and largest reactor matrix dimension
MaxIso == 2
\* most rows appended to the history of one fuel system
MaxAppends == 2
\* longest duration passed to timeSimulate
MaxTime == 1
\* most writes the caller makes into the arrays it holds
MaxWrites == 1
\* most addTransmutations calls, and most addFissionYields calls, made on one
\* builder
MaxBuildCalls == 2
\* the longest list of decay modes of an isotope
MaxModes == 2

\* ------------------------------------------------------- isotope codes
\* canonical ten digit codes, as sequences of digits
U238 == <<0, 9, 2, 2, 3, 8, 0, 0, 0, 0>>
Th234 == <<0, 9, 0, 2, 3, 4, 0, 0, 0, 0>>
\* childIsotopes returns the single name "SF" for spontaneous fission;
\* it is no isotope code and can never be tracked
SF == <<>>

Codes == {U238, Th234}
ChildCodes == Codes \cup {SF}

\* ------------------------------------------------------------ helpers
RECURSIVE SumSeq(_)
SumSeq(s) == IF s = <<>> THEN 0 ELSE Head(s) + SumSeq(Tail(s))

SeqsUpTo(S, n) == UNION {[1..k -> S] : k \in 0..n}

NoDuplicates(s) == \A i, j \in 1..Len(s) : s[i] = s[j] => i = j

Min(a, b) == IF a <= b THEN a ELSE b

\* -------------------------------------------------------- decay records
\* decay constants are multiples of ProbDen so that decayConst * childProb
\* is computed exactly in integers
DecayConsts == {ProbDen, 2 * ProbDen}
Probs == 0..ProbDen

\* a slip that would drop the branching probability from the product
RateIgnoringProb(decayConst, p) == decayConst

\* decayConst * childProb with childProb = p / ProbDen
RateTimesProb(decayConst, p) == (decayConst * p) \div ProbDen

\* the record decayPreProcessing writes for a stable isotope:
\* 1/float("Inf") = 0.0, childIsotopes(parent, None) = [], childProbs null
StableRecord ==
    [decayConst |-> 0, childNames |-> <<>>, childProbs |-> <<>>,
     childProbsNone |-> TRUE]

\* records of decaying isotopes: parallel lists of children and probabilities
DecayRecords ==
    {[decayConst |-> l, childNames |-> cn, childProbs |-> cp,
      childProbsNone |-> FALSE] :
        l \in DecayConsts,
        cn \in {<<c>> : c \in ChildCodes}, cp \in {<<p>> : p \in Probs}}
    \cup
    {[decayConst |-> ProbDen, childNames |-> <<c1, c2>>,
      childProbs |-> <<p1, p2>>, childProbsNone |-> FALSE] :
        c1 \in ChildCodes, c2 \in ChildCodes, p1 \in 1..ProbDen, p2 \in {1, ProbDen}}

Records == DecayRecords \cup {StableRecord}

\* contents of decayData.json: isotope code -> record, for some of the codes
DecayTables == UNION {[D -> Records] : D \in SUBSET Codes}

\* lists the caller may pass as trackedIsotopes (None is a separate case)
TrackedLists == SeqsUpTo(Codes, MaxTracked)

\* ------------------------------------------------------------ variables
VARIABLES
    built,            \* a batemanMatrix object exists
    trackedIsotopes,  \* batemanMatrix.trackedIsotopes
    BM,               \* batemanMatrix.BM, BM[row][column]
    decayData,        \* contents of decayData.json
    nDecay,           \* addDecay calls made on the builder so far
    xsData,           \* the one-group cross sections the ENDF files yield
    nTrans,           \* addTransmutations calls made on the builder so far
    nFission,         \* addFissionYields calls made on the builder so far
    exportedBM,       \* the caller's reference to the matrix object
                      \* exportBatemanMatrix() returned, 0 when there is none
    reactorRef,       \* reactor.BM of a reactor built from the exported
                      \* matrix: a reference, 0 when there is no such reactor
    usedSpectrum,     \* the energy spectrum of the homogenizer the last
                      \* addTransmutations call queried (kept beside the
                      \* program, never read by it)
    energy_spectrum,  \* CrossSectionHomogenizer.energy_spectrum of the
                      \* homogenizer the caller holds
    cache,            \* CrossSectionHomogenizer.cache: (nuclide, mt) -> value
    loaded_nuclides,  \* CrossSectionHomogenizer.loaded_nuclides: nuclide ->
                      \* the ENDF file whose data is in memory under its name
    fsBuilt,          \* a fuelSystem object exists
    iso,              \* fuelSystem.iso
    dataLength,       \* fuelSystem.dataLength
    con,              \* fuelSystem.con: reference to an array of the heap
    history,          \* fuelSystem.history: reference to an array of the heap
    heap,             \* the numpy arrays alive, by reference
    ctorArg,          \* the caller's reference to the array it passed to
                      \* fuelSystem(...), 0 when there is none
    exported,         \* the caller's reference to the buffer of the array
                      \* the last exportHistory() returned, 0 when none
    reactorBM,        \* reactor.BM
    scheme,           \* the reprocess object: add, mult and reNorm
    repoSeen,         \* the successful repo calls so far: the vector each was
                      \* given and the vector it made (kept beside the
                      \* program, never read by it)
    durations,        \* the durations of the timeSimulate calls that made
                      \* the last rows of the history, since the last row
                      \* made otherwise; NotTimed in the scenarios that do
                      \* not time the calls (kept beside the program, never
                      \* read by it)
    nWrites,          \* writes the caller made into arrays it holds
    log,              \* the vectors recorded so far, as the calls produced
                      \* them (kept beside the program, never read by it)
    lastCall          \* the last operation called, its argument, how it
                      \* ended and what it returned

builderVars ==
    <<built, trackedIsotopes, BM, decayData, nDecay, xsData, nTrans, nFission,
      exportedBM, reactorRef, usedSpectrum>>
fuelVars ==
    <<fsBuilt, iso, dataLength, con, history, heap, ctorArg, exported,
      reactorBM, nWrites, log>>
schemeVars == <<scheme, repoSeen>>
xsVars == <<energy_spectrum, cache, loaded_nuclides>>
vars == <<builderVars, fuelVars, schemeVars, xsVars, durations, lastCall>>

\* a call that returns None, with and without an argument of interest
Call(op, err) == [op |-> op, err |-> err, arg |-> 0, ret |-> 0]
CallWith(op, arg, err) == [op |-> op, err |-> err, arg |-> arg, ret |-> 0]
\* a call that returns a value
CallRet(op, arg, err, ret) == [op |-> op, err |-> err, arg |-> arg, ret |-> ret]

\* ------------------------------------------------------------- matrices
\* np.zeros([N, N])
Zeros(N) == [r \in 1..N |-> [c \in 1..N |-> 0]]

\* m[r][c] += x
AddAt(m, r, c, x) == [m EXCEPT ![r][c] = @ + x]

ColumnSum(m, c) == SumSeq([r \in 1..Len(m) |-> m[r][c]])

\* list.index(x): position of the first occurrence, 0 when it raises ValueError
RECURSIVE IndexFrom(_, _, _)
IndexFrom(s, x, i) ==
    IF i > Len(s) THEN 0
    ELSE IF s[i] = x THEN i
    ELSE IndexFrom(s, x, i + 1)

Index(s, x) == IndexFrom(s, x, 1)

\* ------------------------------------------------- batemanMatrix.__init__
\* trackedIsotopes == None raises ValueError; nothing else is checked
ConstructNone ==
    /\ ~built
    /\ lastCall' = Call("batemanMatrix", "ValueError")
    /\ UNCHANGED <<builderVars, fuelVars, schemeVars, xsVars, durations>>

Construct(tracked) ==
    /\ ~built
    /\ built' = TRUE
    /\ trackedIsotopes' = tracked
    /\ BM' = Zeros(Len(tracked))
    /\ lastCall' = Call("batemanMatrix", "none")
    /\ UNCHANGED <<decayData, nDecay, xsData, nTrans, nFission, exportedBM,
                   reactorRef, fuelVars, schemeVars, xsVars,
                   durations, usedSpectrum>>

\* --------------------------------------------------- batemanMatrix.addDecay
\* inner loop: for childName, childProb in zip(childNames, childProbs)
RECURSIVE ChildLoop(_, _, _, _, _, _)
ChildLoop(bm, tracked, parentIndex, decayConst, childNames, childProbs) ==
    IF childNames = <<>> \/ childProbs = <<>> THEN bm
    ELSE LET childIndex == Index(tracked, Head(childNames))
             bm1 == IF childIndex = 0
                    THEN bm   \* ValueError caught: product not tracked
                    ELSE AddAt(bm, childIndex, parentIndex,
                               RateTimesProb(decayConst, Head(childProbs)))
         IN ChildLoop(bm1, tracked, parentIndex, decayConst,
                      Tail(childNames), Tail(childProbs))

\* a slip that would add the decay constant to the diagonal
DiagonalGain(bm, parentIndex, decayConst) ==
    AddAt(bm, parentIndex, parentIndex, decayConst)

\* self.BM[parentIndex][parentIndex] -= decayConst
DiagonalLoss(bm, parentIndex, decayConst) ==
    AddAt(bm, parentIndex, parentIndex, -decayConst)

\* the locals decayConst, childNames, childProbs before the first assignment
UnboundLocals ==
    [bound |-> FALSE, decayConst |-> 0, childNames |-> <<>>,
     childProbs |-> <<>>, childProbsNone |-> FALSE]

\* the try block: on KeyError the locals keep the values of the previous
\* iteration (or stay unbound)
LookupDecay(data, parent, loc) ==
    IF parent \in DOMAIN data
    THEN [bound |-> TRUE, decayConst |-> data[parent].decayConst,
          childNames |-> data[parent].childNames,
          childProbs |-> data[parent].childProbs,
          childProbsNone |-> data[parent].childProbsNone]
    ELSE loc

\* outer loop: for parentIndex, parent in enumerate(self.trackedIsotopes)
RECURSIVE ParentLoop(_, _, _, _, _)
ParentLoop(bm, tracked, data, parentIndex, loc) ==
    IF parentIndex > Len(tracked) THEN [BM |-> bm, err |-> "none"]
    ELSE LET loc1 == LookupDecay(data, tracked[parentIndex], loc)
         IN IF ~loc1.bound
            THEN [BM |-> bm, err |-> "UnboundLocalError"]
            ELSE LET bm1 == DiagonalLoss(bm, parentIndex, loc1.decayConst)
                 IN IF loc1.childProbsNone
                    THEN [BM |-> bm1, err |-> "TypeError"]   \* zip(list, None)
                    ELSE ParentLoop(
                           ChildLoop(bm1, tracked, parentIndex, loc1.decayConst,
                                     loc1.childNames, loc1.childProbs),
                           tracked, data, parentIndex + 1, loc1)

\* a slip that would guard addDecay against a matrix already filled
DecayResultOnce(bm, tracked, data) ==
    IF bm # Zeros(Len(bm)) THEN [BM |-> bm, err |-> "none"]
    ELSE ParentLoop(bm, tracked, data, 1, UnboundLocals)

DecayResult(bm, tracked, data) == ParentLoop(bm, tracked, data, 1, UnboundLocals)

addDecay ==
    /\ built
    /\ nDecay < MaxDecayCalls
    /\ LET res == DecayResult(BM, trackedIsotopes, decayData)
       IN /\ BM' = res.BM
          /\ lastCall' = Call("addDecay", res.err)
    /\ nDecay' = nDecay + 1
    /\ UNCHANGED <<built, trackedIsotopes, decayData, xsData, nTrans, nFission,
                   exportedBM, reactorRef, fuelVars, schemeVars, xsVars,
                   durations, usedSpectrum>>

\* ------------------------------------------------ batemanMatrix.isotopeChange
\* the A field "FP" and the Z field None of the fission entry of the reaction
\* table: values that are no integers
FP == 999
NoneZ == 998

\* the character "-" among the digits of a formatted number
Minus == -1

\* int(s) for a string of digits
RECURSIVE DigitsToInt(_)
DigitsToInt(s) ==
    IF s = <<>> THEN 0
    ELSE 10 * DigitsToInt(SubSeq(s, 1, Len(s) - 1)) + s[Len(s)]

RECURSIVE ToDigits(_)
ToDigits(n) == IF n < 10 THEN <<n>> ELSE Append(ToDigits(n \div 10), n % 10)

RECURSIVE PadLeft(_, _)
PadLeft(s, w) == IF Len(s) >= w THEN s ELSE PadLeft(<<0>> \o s, w)

\* f"{n:03d}": at least three characters, the sign included
Format03d(n) ==
    IF n >= 0 THEN PadLeft(ToDigits(n), 3)
    ELSE <<Minus>> \o PadLeft(ToDigits(-n), 2)

\* the values of deltaM
NoneM == "None"
DeltaMs == {NoneM, "+1", "-1"}

\* the metastable fields "0000", "0001" and "0010"
Ground == <<0, 0, 0, 0>>
Meta1 == <<0, 0, 0, 1>>
Meta2 == <<0, 0, 1, 0>>

\* if M == a: M = b
IfThenSet(M, a, b) == IF M = a THEN b ELSE M

\* the block "if deltaM == None: pass ...": the tests of deltaM against "+1"
\* and "-1" are nested under deltaM == None, each with two tests of M in turn
MetaShift(M, deltaM) ==
    IF deltaM = NoneM
    THEN LET up == IF deltaM = "+1"
                   THEN IfThenSet(IfThenSet(M, Meta1, Meta2), Ground, Meta1)
                   ELSE M
         IN IF deltaM = "-1"
            THEN IfThenSet(IfThenSet(up, Meta2, Meta1), Meta1, Ground)
            ELSE up
    ELSE M

\* A from isoName[0:3], Z from isoName[3:7], M = isoName[7:10], then
\* f"{A:03d}" + f"{Z:03d}" + M
isotopeChange(isoName, deltaA, deltaZ, deltaM) ==
    IF deltaA = FP \/ deltaZ = NoneZ
    THEN [err |-> "TypeError", name |-> isoName]      \* int + str, int + None
    ELSE [err |-> "none",
          name |-> Format03d(DigitsToInt(SubSeq(isoName, 1, 3)) + deltaA)
                   \o Format03d(DigitsToInt(SubSeq(isoName, 4, 7)) + deltaZ)
                   \o MetaShift(SubSeq(isoName, 8, 10), deltaM)]

\* --------------------------------------------- batemanMatrix.addTransmutations
Rxn(mt, a, z) == [MT |-> mt, A |-> a, Z |-> z]

\* the reaction table of addTransmutations, in its order
transmutationRxns ==
    <<Rxn(4, 0, 0), Rxn(16, -1, 0), Rxn(17, -2, 0), Rxn(18, FP, NoneZ),
      Rxn(22, -4, -2), Rxn(23, -12, -6), Rxn(24, -5, -2), Rxn(25, -6, -2),
      Rxn(28, -1, -1), Rxn(29, -8, -2), Rxn(32, -2, -1), Rxn(33, -3, -2),
      Rxn(34, -3, -2), Rxn(37, -3, 0), Rxn(41, -2, -1), Rxn(44, -2, -1),
      Rxn(45, -5, -2), Rxn(102, 1, 0), Rxn(103, -1, -1), Rxn(104, -1, -1),
      Rxn(105, -2, -1), Rxn(106, -2, -2), Rxn(107, -3, -2), Rxn(108, -7, -4),
      Rxn(111, -1, -2), Rxn(112, -4, -3), Rxn(113, -7, -4), Rxn(115, -2, -2),
      Rxn(116, -3, -2), Rxn(117, -5, -3)>>

MTs == {transmutationRxns[i].MT : i \in 1..Len(transmutationRxns)}

\* what get_one_group_xs finds for a nuclide and a reaction: a cross section,
\* or no ENDF file (FileNotFoundError), or no such reaction in the file
\* (ValueError)
NoFile == -1
NoReaction == -2
XSValues == {NoFile, NoReaction, 1, 2}

\* U238 has a file with inelastic scattering (MT 4) only, Th234 has no file
MixedTable ==
    [k \in Codes \X MTs |->
        IF k[1] = U238 THEN (IF k[2] = 4 THEN 1 ELSE NoReaction) ELSE NoFile]

\* the cross section data: the same outcome for every nuclide and reaction,
\* or the mixed table
XSTables == {[k \in Codes \X MTs |-> x] : x \in XSValues} \cup {MixedTable}

\* totalFlux = 1000
totalFlux == 1000

\* a slip that would store the rate in the matrix instead of adding it
AssignScalar(bm, x) == [r \in 1..Len(bm) |-> [c \in 1..Len(bm) |-> x]]

\* bm += x for a scalar x: every entry of the matrix, in place
AddScalar(bm, x) ==
    [r \in 1..Len(bm) |-> [c \in 1..Len(bm) |-> bm[r][c] + x]]

\* inner loop: for rxnIndex, rxn in enumerate(transmutationRxns)
RECURSIVE RxnLoop(_, _, _, _, _)
RxnLoop(bm, tracked, xs, targetIso, rxnIndex) ==
    IF rxnIndex > Len(transmutationRxns) THEN [BM |-> bm, err |-> "none"]
    ELSE LET rxn == transmutationRxns[rxnIndex]
             prod == isotopeChange(targetIso, rxn.A, rxn.Z, NoneM)
         IN IF prod.err # "none" THEN [BM |-> bm, err |-> prod.err]
            ELSE IF Index(tracked, prod.name) = 0
            THEN RxnLoop(bm, tracked, xs, targetIso, rxnIndex + 1)  \* print only
            ELSE LET XS == xs[<<targetIso, rxn.MT>>]
                 IN IF XS = NoFile
                    THEN [BM |-> bm, err |-> "FileNotFoundError"]
                    ELSE IF XS = NoReaction
                    THEN [BM |-> bm, err |-> "ValueError"]
                    ELSE RxnLoop(AddScalar(bm, XS * totalFlux), tracked, xs,
                                 targetIso, rxnIndex + 1)

\* outer loop: for targetIndex, targetIso in enumerate(self.trackedIsotopes)
RECURSIVE TargetLoop(_, _, _, _)
TargetLoop(bm, tracked, xs, targetIndex) ==
    IF targetIndex > Len(tracked) THEN [BM |-> bm, err |-> "none"]
    ELSE LET res == RxnLoop(bm, tracked, xs, tracked[targetIndex], 1)
         IN IF res.err # "none" THEN res
            ELSE TargetLoop(res.BM, tracked, xs, targetIndex + 1)

TransResult(bm, tracked, xs) == TargetLoop(bm, tracked, xs, 1)

\* the spectra a caller may pass
Spectra == {"thermal", "fast"}

\* CrossSectionHomogenizer(energy_spectrum): None selects the default thermal
\* spectrum
NoneSpectrum == "None"
SpectrumOf(spectrum) == IF spectrum = NoneSpectrum THEN "thermal" ELSE spectrum

\* XSdata = csh.CrossSectionHomogenizer(): no argument, energy_spectrum = None
addTransmutations(spectrum) ==
    /\ built
    /\ nTrans < MaxBuildCalls
    /\ usedSpectrum' = SpectrumOf(NoneSpectrum)
    /\ \E res \in {TransResult(BM, trackedIsotopes, xsData)} :
         /\ BM' = res.BM
         /\ lastCall' = CallWith("addTransmutations", spectrum, res.err)
    /\ nTrans' = nTrans + 1
    /\ UNCHANGED <<built, trackedIsotopes, decayData, nDecay, xsData, nFission,
                   exportedBM, reactorRef, fuelVars, schemeVars, xsVars,
                   durations>>

\* ---------------------------------------------- batemanMatrix.addFissionYields
\* fissionable = ['0922350000','0922380000']
U235 == <<0, 9, 2, 2, 3, 5, 0, 0, 0, 0>>
fissionable == {U235, U238}

\* the loop body is "pass" for a fissionable isotope and nothing otherwise
RECURSIVE FissionLoop(_, _, _)
FissionLoop(bm, tracked, index) ==
    IF index > Len(tracked) THEN bm
    ELSE IF tracked[index] \in fissionable
         THEN FissionLoop(bm, tracked, index + 1)
         ELSE FissionLoop(bm, tracked, index + 1)

addFissionYields ==
    /\ built
    /\ nFission < MaxBuildCalls
    /\ BM' = FissionLoop(BM, trackedIsotopes, 1)
    /\ nFission' = nFission + 1
    /\ lastCall' = Call("addFissionYields", "none")
    /\ UNCHANGED <<built, trackedIsotopes, decayData, nDecay, xsData, nTrans,
                   exportedBM, reactorRef, fuelVars, schemeVars, xsVars,
                   durations, usedSpectrum>>

\* ------------------------------------------- batemanMatrix.exportBatemanMatrix
\* A builder has one matrix object: __init__ creates it and every later
\* update is made in place (BM[i][j] -= x, BM[i][j] += x, BM += x).  The
\* reference 1 stands for that object and BM for its contents.
TheMatrix == 1

\* the matrix seen through a reference held outside the builder
MatrixAt(ref) == IF ref = TheMatrix THEN BM ELSE Zeros(0)

\* return self.BM: the object itself
exportBatemanMatrix ==
    /\ built
    /\ exportedBM' = TheMatrix
    /\ lastCall' = Call("exportBatemanMatrix", "none")
    /\ UNCHANGED <<built, trackedIsotopes, BM, decayData, nDecay, xsData,
                   nTrans, nFission, reactorRef, fuelVars, schemeVars, xsVars,
                   durations, usedSpectrum>>

\* reactor(Q) for the exported Q: self.BM = batemanMatrix, the object itself
reactorInit ==
    /\ exportedBM # 0
    /\ reactorRef = 0
    /\ reactorRef' = exportedBM
    /\ lastCall' = Call("reactor", "none")
    /\ UNCHANGED <<built, trackedIsotopes, BM, decayData, nDecay, xsData,
                   nTrans, nFission, exportedBM, fuelVars, schemeVars, xsVars,
                   durations, usedSpectrum>>

\* the value the caller writes into a matrix, unlike any the builder produces
WrittenEntry == 7

\* the caller stores a value at [i][j] of the matrix exportBatemanMatrix
\* returned
callerWriteBM(i, j) ==
    /\ exportedBM # 0
    /\ nWrites < MaxWrites
    /\ i \in 1..Len(BM) /\ j \in 1..Len(BM)
    /\ BM' = [BM EXCEPT ![i][j] = WrittenEntry]
    /\ nWrites' = nWrites + 1
    /\ lastCall' = Call("writeBM", "none")
    /\ UNCHANGED <<built, trackedIsotopes, decayData, nDecay, xsData, nTrans,
                   nFission, exportedBM, reactorRef, usedSpectrum, schemeVars,
                   xsVars, durations>>
    /\ UNCHANGED <<fsBuilt, iso, dataLength, con, history, heap, ctorArg,
                   exported, reactorBM, log>>

\* no fuelSystem object yet
NoFuelSystem ==
    /\ fsBuilt = FALSE
    /\ iso = <<>>
    /\ dataLength = 0
    /\ con = 0
    /\ history = 0
    /\ heap = <<>>
    /\ ctorArg = 0
    /\ exported = 0
    /\ nWrites = 0
    /\ log = <<>>

\* the calls are not timed
NotTimed == <<-1>>

\* the durations after a call has added a row to the history
Timed(ds, op, arg) ==
    IF ds = NotTimed THEN NotTimed
    ELSE IF op = "timeSimulate" THEN Append(ds, arg) ELSE <<>>

\* no CrossSectionHomogenizer object held by the caller yet
NoHomogenizer ==
    /\ energy_spectrum = NoneSpectrum
    /\ cache = <<>>
    /\ loaded_nuclides = <<>>

\* no reprocess object yet
NoScheme ==
    /\ scheme = [add |-> [dtype |-> "int", data |-> <<>>], mult |-> Zeros(0),
                 multDtype |-> "int", reNorm |-> FALSE]
    /\ repoSeen = <<>>

\* no call other than addDecay made on the builder, nothing exported
NoBuildCalls ==
    /\ nTrans = 0
    /\ nFission = 0
    /\ exportedBM = 0
    /\ reactorRef = 0
    /\ usedSpectrum = NoneSpectrum

\* ------------------------------------------------------ builder scenario
InitBuilder ==
    /\ built = FALSE
    /\ trackedIsotopes = <<>>
    /\ BM = Zeros(0)
    /\ decayData \in DecayTables
    /\ nDecay = 0
    /\ NoBuildCalls
    /\ NoHomogenizer
    /\ xsData = <<>>
    /\ NoFuelSystem
    /\ durations = NotTimed
    /\ reactorBM = Zeros(1)
    /\ NoScheme
    /\ lastCall = Call("none", "none")

NextBuilder ==
    \/ ConstructNone
    \/ \E tracked \in TrackedLists : Construct(tracked)
    \/ addDecay

SpecBuilder == InitBuilder /\ [][NextBuilder]_vars

\* ------------------------------------------------------- build scenario
\* a two isotope chain: U238 decays to Th234, Th234 fissions spontaneously
\* half of the time
ChainTable ==
    (U238 :> [decayConst |-> ProbDen, childNames |-> <<Th234>>,
              childProbs |-> <<ProbDen>>, childProbsNone |-> FALSE])
    @@ (Th234 :> [decayConst |-> 2 * ProbDen, childNames |-> <<SF>>,
                  childProbs |-> <<1>>, childProbsNone |-> FALSE])

\* the decay tables of the build scenario: the empty one and the chain
BuildTables == {t \in DecayTables : t = <<>> \/ t = ChainTable}

InitBuild ==
    /\ built = FALSE
    /\ trackedIsotopes = <<>>
    /\ BM = Zeros(0)
    /\ decayData \in BuildTables
    /\ nDecay = 0
    /\ NoBuildCalls
    /\ NoHomogenizer
    /\ xsData \in XSTables
    /\ NoFuelSystem
    /\ durations = NotTimed
    /\ reactorBM = Zeros(1)
    /\ NoScheme
    /\ lastCall = Call("none", "none")

\* the operations that build the matrix
NextBuild ==
    \/ ConstructNone
    \/ \E tracked \in TrackedLists : Construct(tracked)
    \/ addDecay
    \/ \E spectrum \in Spectra : addTransmutations(spectrum)
    \/ addFissionYields

\* a builder used through its build operations only
SpecBuild == InitBuild /\ [][NextBuild]_vars

\* the matrix is also exported, handed to a reactor and written by the caller
NextExport ==
    \/ NextBuild
    \/ exportBatemanMatrix
    \/ reactorInit
    \/ \E i, j \in 1..MaxTracked : callerWriteBM(i, j)

SpecExport == InitBuild /\ [][NextExport]_vars

\* =================================================================== numbers
\* A float is the exact fraction <<n, d>> in lowest terms with d > 0, or one
\* of the IEEE specials: <<1, 0>> = inf, <<-1, 0>> = -inf, <<0, 0>> = nan.
\* The values of the model are small, so no rounding or overflow occurs.
Abs(x) == IF x < 0 THEN -x ELSE x

Sign(x) == IF x > 0 THEN 1 ELSE IF x < 0 THEN -1 ELSE 0

RECURSIVE GCD(_, _)
GCD(a, b) == IF b = 0 THEN a ELSE GCD(b, a % b)

Norm(n, d) ==
    IF d = 0 THEN <<Sign(n), 0>>
    ELSE LET g == GCD(Abs(n), Abs(d))
         IN <<(Sign(d) * n) \div g, Abs(d) \div g>>

R(n) == <<n, 1>>
NaN == <<0, 0>>

IsFinite(x) == x[2] # 0

RAdd(x, y) ==
    IF x[2] = 0 /\ y[2] = 0
    THEN (IF x = y THEN x ELSE NaN)       \* inf + inf, inf - inf, nan
    ELSE Norm(x[1] * y[2] + y[1] * x[2], x[2] * y[2])

RMul(x, y) == Norm(x[1] * y[1], x[2] * y[2])

\* IEEE division: x/0 is +-inf, 0/0 is nan, no exception
RDiv(x, y) == Norm(x[1] * y[2], x[2] * y[1])

RECURSIVE RSum(_)
RSum(s) == IF s = <<>> THEN R(0) ELSE RAdd(Head(s), RSum(Tail(s)))

\* ==================================================================== arrays
\* a one dimensional numpy array: its dtype and its elements
Array(dtype, data) == [dtype |-> dtype, data |-> data]

\* numpy type promotion of two operands
Promote(t1, t2) == IF t1 = "int" /\ t2 = "int" THEN "int" ELSE "float"

\* a slip that would keep only the new vector
KeepNewOnly(hist, new) == Array(Promote(hist.dtype, new.dtype), new.data)

\* a slip that would put the new vector in front of the recorded ones
Prepend(hist, new) ==
    Array(Promote(hist.dtype, new.dtype), new.data \o hist.data)

\* np.append(hist, new, axis=0) on one dimensional arrays: a new array
NpAppend(hist, new) ==
    Array(Promote(hist.dtype, new.dtype), hist.data \o new.data)

\* arr.reshape(-1, n): the rows of a view on the same buffer
Reshape(data, n) ==
    [r \in 1..(Len(data) \div n) |-> SubSeq(data, (r - 1) * n + 1, r * n)]

\* integer matrices, as BM[row][column]
Identity(n) == [r \in 1..n |-> [c \in 1..n |-> IF r = c THEN 1 ELSE 0]]

Scale(m, k) == [r \in 1..Len(m) |-> [c \in 1..Len(m) |-> m[r][c] * k]]

MatMul(a, b) ==
    [r \in 1..Len(a) |-> [c \in 1..Len(a) |->
        SumSeq([k \in 1..Len(a) |-> a[r][k] * b[k][c]])]]

MatAdd(a, b) == [r \in 1..Len(a) |-> [c \in 1..Len(a) |-> a[r][c] + b[r][c]]]

\* matrix times vector, for a vector as long as the matrix is wide
MatVec(m, v) ==
    [r \in 1..Len(m) |-> RSum([c \in 1..Len(v) |-> RMul(R(m[r][c]), v[c])])]

VecAdd(a, b) == [i \in 1..Len(a) |-> RAdd(a[i], b[i])]

\* the matrix with rate 1 from isotope c to isotope r and 0 elsewhere
Transfer(n, r, c) ==
    [i \in 1..n |-> [j \in 1..n |-> IF i = r /\ j = c THEN 1 ELSE 0]]

\* the sizes of the fuel systems, matrices and schemes: the two largest
Sizes == {n \in 1..MaxIso : n >= MaxIso - 1}

\* the matrices a reactor is given, for the largest fuel systems: the zero
\* matrix and the single transfers between the first two isotopes.  Each has
\* Q.Q = 0, so its exponential is I + Q exactly and the propagator is
\* computed without rounding
ReactorMatrices ==
    UNION {{Zeros(n)}
           \cup {Transfer(n, rc[1], rc[2]) :
                   rc \in {p \in {<<1, 2>>, <<2, 1>>} : n >= 2}} :
              n \in {MaxIso}}

\* a slip that would apply the generator instead of its exponential
ExpmFirstOrderOnly(m) == m

\* scipy.linalg.expm(m) for m with m.m = 0
Expm(m) == MatAdd(Identity(Len(m)), m)

Times == 0..MaxTime

\* ====================================================================== heap
\* the reference a newly created array gets
NewRef(h) == CHOOSE i \in 1..(Cardinality(DOMAIN h) + 1) : i \notin DOMAIN h

\* the arrays still referenced by someone
Collect(h, roots) == [i \in (DOMAIN h \cap roots) |-> h[i]]

ConVec == heap[con].data
HistoryData == heap[history].data

\* what exportHistory() returns in the current state
ExportedRows == Reshape(HistoryData, Len(iso))

IsPrefix(s, t) == Len(s) <= Len(t) /\ SubSeq(t, 1, Len(s)) = s

\* ======================================================== fuelSystem.__init__
\* the isotope list of a fuel system with n isotopes
IsoNames(n) == [i \in 1..n |-> i]

Dtypes == {"int", "float"}

\* the vector with 1 at index k and 0 elsewhere; all 0 for k = 0
Unit(n, k) == [i \in 1..n |-> IF i = k THEN R(1) ELSE R(0)]

\* the arrays a caller builds: the zero vector, the first and the last unit
\* vector, integer or float
InputArrays(n) == {Array(t, Unit(n, k)) : t \in Dtypes, k \in {0, 1, n}}

\* the vectors a caller hands to appendHistory itself, one per length
AppendInputs == {Array("float", Unit(n, 1)) : n \in Sizes \cup {MaxIso + 1}}

\* a slip that would skip the length check of the constructor
LengthsNeverChecked(isotopes, concentrations) == TRUE

\* the check of __init__: as many concentrations as isotopes
LengthsMatch(isotopes, concentrations) ==
    Len(isotopes) = Len(concentrations.data)

\* lastCall.arg is by how much the two lists differ in length
fuelSystemInit(isotopes, concentrations) ==
    /\ ~fsBuilt
    /\ IF ~LengthsMatch(isotopes, concentrations)
       THEN /\ lastCall' = CallWith("fuelSystem",
                                     Len(isotopes) - Len(concentrations.data),
                                     "ValueError")
            /\ UNCHANGED fuelVars
       ELSE /\ fsBuilt' = TRUE
            /\ dataLength' = Len(isotopes)
            /\ iso' = isotopes
            \* con and history are the caller's array itself, not copies
            /\ heap' = (1 :> concentrations)
            /\ con' = 1
            /\ history' = 1
            /\ ctorArg' = 1
            /\ log' = <<concentrations.data>>
            /\ lastCall' = CallWith("fuelSystem",
                                     Len(isotopes) - Len(concentrations.data),
                                     "none")
            /\ UNCHANGED <<exported, reactorBM, nWrites>>
    /\ UNCHANGED <<builderVars, schemeVars, xsVars, durations>>

\* ==================================================== fuelSystem.appendHistory
\* a slip that would skip the length check
LengthAlwaysAccepted(length, vec) == TRUE

\* the check of appendHistory: the vector is as long as dataLength
LengthAccepted(length, vec) == length = Len(vec.data)

\* appendHistory(h[ref]) where h is the heap with the argument in it: either
\* it raises and nothing is assigned, or con becomes the argument itself and
\* history a new array
AppendHistoryTo(h, ref, op, arg) ==
    IF ~LengthAccepted(dataLength, h[ref])
    THEN /\ lastCall' = CallWith(op, arg, "ValueError")
         /\ UNCHANGED <<fuelVars, durations>>
    ELSE \E hid \in {NewRef(h)} :
            /\ con' = ref
            /\ history' = hid
            \* the arrays the caller holds are no longer those of the fuel
            \* system: its references are of no further consequence
            /\ ctorArg' = 0
            /\ exported' = 0
            /\ heap' = Collect((hid :> NpAppend(h[history], h[ref])) @@ h,
                               {ref, hid})
            /\ log' = Append(log, h[ref].data)
            /\ durations' = Timed(durations, op, arg)
            /\ lastCall' = CallWith(op, arg, "none")
            /\ UNCHANGED <<fsBuilt, iso, dataLength, reactorBM, nWrites>>

\* the caller calls appendHistory with an array of its own
appendHistory(vec) ==
    /\ fsBuilt
    /\ Len(log) <= MaxAppends
    /\ \E ref \in {NewRef(heap)} :
         \E h \in {(ref :> vec) @@ heap} :
            AppendHistoryTo(h, ref, "appendHistory", Len(vec.data))
    /\ UNCHANGED <<builderVars, schemeVars, xsVars>>

\* ==================================================== fuelSystem.exportHistory
\* fName == None: returns self.history.reshape(-1, len(self.iso)), a view
exportHistory ==
    /\ fsBuilt
    /\ exported' = history
    /\ lastCall' = Call("exportHistory", "none")
    /\ UNCHANGED <<fsBuilt, iso, dataLength, con, history, heap, ctorArg,
                   reactorBM, nWrites, log>>
    /\ UNCHANGED <<builderVars, schemeVars, xsVars, durations>>

\* ======================================================== reactor.timeSimulate
\* a slip that would let a matrix of another size through
SimulateUnchecked(bm, time, vec) ==
    IF Len(bm) # Len(vec.data)
    THEN [err |-> "none", new |-> Array("float", vec.data)]
    ELSE [err |-> "none",
          new |-> Array("float", MatVec(Expm(Scale(bm, time)), vec.data))]

\* N_new = expm(self.BM * time) @ fuelSys.con: matmul raises ValueError when
\* the vector is not as long as the matrix is wide; the result is a new
\* float array
Simulate(bm, time, vec) ==
    IF Len(bm) # Len(vec.data)
    THEN [err |-> "ValueError", new |-> vec]
    ELSE [err |-> "none",
          new |-> Array("float", MatVec(Expm(Scale(bm, time)), vec.data))]

\* a slip that would start every step from the first recorded vector
InitialArray ==
    Array(heap[history].dtype, SubSeq(heap[history].data, 1, dataLength))

\* fuelSys.con: the array the step starts from
StartArray == heap[con]

timeSimulate(time) ==
    /\ fsBuilt
    /\ Len(log) <= MaxAppends
    /\ \E res \in {Simulate(reactorBM, time, StartArray)} :
         IF res.err # "none"
         THEN /\ lastCall' = CallWith("timeSimulate", time, res.err)
              /\ UNCHANGED <<fuelVars, durations>>
         ELSE \E ref \in {NewRef(heap)} :
                 \E h \in {(ref :> res.new) @@ heap} :
                    AppendHistoryTo(h, ref, "timeSimulate", time)
    /\ UNCHANGED <<builderVars, schemeVars, xsVars>>

\* the argument is not a fuelSystem object: isinstance fails
timeSimulateOther ==
    /\ lastCall' = Call("timeSimulateOther", "ValueError")
    /\ UNCHANGED <<builderVars, fuelVars, schemeVars, xsVars, durations>>

\* ============================================================== reprocess.repo
\* the schemes a caller constructs for n isotopes: reprocess(add, mult, reNorm)
\* with integer arrays: the vector is kept, with nothing or the first isotope
\* added, or it is negated and the first isotope added
Mults(n) == {Identity(n), Scale(Identity(n), -1)}

Schemes(n) ==
    {[add |-> Array("int", Unit(n, km[1])), mult |-> km[2],
      multDtype |-> "int", reNorm |-> b] :
        km \in {p \in (0..1) \X Mults(n) : p[1] = 1 \/ p[2] = Identity(n)},
        b \in BOOLEAN}

\* the scheme object after repo has computed N_new: self.add + ... allocates
\* the new array and "/=" works on that array, so no field is assigned or
\* written
SchemeAfterInPlace(self, new) == [self EXCEPT !.add = new]

SchemeAfter(self, new) == self

\* a slip that would leave out the added vector
ReprocessMultOnly(self, vec) ==
    IF Len(self.mult) # Len(vec.data)
    THEN [err |-> "ValueError", new |-> vec, self |-> self]
    ELSE LET new == Array(Promote(self.multDtype, vec.dtype),
                          MatVec(self.mult, vec.data))
         IN [err |-> "none", new |-> new, self |-> SchemeAfter(self, new)]

\* N_new = self.add + np.dot(self.mult, fuelSys.con), then the optional
\* N_new /= sum(N_new) in place on the new array
Reprocess(self, vec) ==
    IF Len(self.mult) # Len(vec.data)
    THEN [err |-> "ValueError", new |-> vec, self |-> self]  \* np.dot: shapes
    ELSE LET dtype == Promote(self.add.dtype,
                              Promote(self.multDtype, vec.dtype))
             sum == VecAdd(self.add.data, MatVec(self.mult, vec.data))
             total == RSum(sum)
             unnormed == Array(dtype, sum)
             normed == Array(dtype, [i \in 1..Len(sum) |-> RDiv(sum[i], total)])
         IN IF ~self.reNorm
            THEN [err |-> "none", new |-> unnormed,
                  self |-> SchemeAfter(self, unnormed)]
            ELSE IF dtype = "int"
            \* true division cannot be stored in place in an integer array
            THEN [err |-> "TypeError", new |-> vec,
                  self |-> SchemeAfter(self, unnormed)]
            ELSE [err |-> "none", new |-> normed,
                  self |-> SchemeAfter(self, normed)]

repo(self) ==
    /\ fsBuilt
    /\ Len(log) <= MaxAppends
    /\ \E res \in {Reprocess(self, heap[con])} :
         /\ scheme' = res.self
         /\ IF res.err # "none"
            THEN /\ lastCall' = Call("repo", res.err)
                 /\ UNCHANGED <<fuelVars, repoSeen, durations>>
            ELSE /\ \E ref \in {NewRef(heap)} :
                      \E h \in {(ref :> res.new) @@ heap} :
                         AppendHistoryTo(h, ref, "repo", 0)
                 /\ repoSeen' = Append(repoSeen, <<heap[con], res.new>>)
    /\ UNCHANGED <<builderVars, xsVars>>

\* ============================================================ the caller
\* the value the caller writes, unlike any the calls produce
Written == R(7)

\* the caller stores a value at index i of an array it holds: the one it
\* passed to the constructor or the one exportHistory returned
callerWrite(ref, i) ==
    /\ ref # 0
    /\ nWrites < MaxWrites
    /\ i \in 1..Len(heap[ref].data)
    /\ heap' = [heap EXCEPT ![ref].data[i] = Written]
    /\ nWrites' = nWrites + 1
    /\ lastCall' = Call("write", "none")
    /\ UNCHANGED <<fsBuilt, iso, dataLength, con, history, ctorArg, exported,
                   reactorBM, log>>
    /\ UNCHANGED <<builderVars, schemeVars, xsVars, durations>>

\* ============================================================ fuel scenarios
\* a reactor and a scheme, no fuel system yet
FuelStart ==
    /\ built = FALSE
    /\ trackedIsotopes = <<>>
    /\ BM = Zeros(0)
    /\ decayData = <<>>
    /\ nDecay = 0
    /\ NoBuildCalls
    /\ NoHomogenizer
    /\ xsData = <<>>
    /\ NoFuelSystem
    /\ reactorBM \in ReactorMatrices
    \* one scheme, for the largest fuel systems
    /\ scheme \in Schemes(MaxIso)
    /\ repoSeen = <<>>
    /\ lastCall = Call("none", "none")

InitFuel == FuelStart /\ durations = NotTimed

\* the calls of the interface
NextCalls ==
    \/ \E n \in Sizes, k \in Sizes \cup {MaxIso + 1} :
           \E c \in InputArrays(k) : fuelSystemInit(IsoNames(n), c)
    \/ \E v \in AppendInputs : appendHistory(v)
    \/ exportHistory
    \/ \E t \in Times : timeSimulate(t)
    \/ timeSimulateOther
    \/ repo(scheme)

\* a fuel system used through its interface only
SpecCalls == InitFuel /\ [][NextCalls]_vars

\* the scheme that feeds the first isotope and keeps the rest
FeedScheme ==
    [add |-> Array("int", Unit(MaxIso, 1)), mult |-> Identity(MaxIso),
     multDtype |-> "int", reNorm |-> FALSE]

\* the same calls, timed, with that one scheme for the reprocessing in
\* between
InitSim == FuelStart /\ scheme = FeedScheme /\ durations = <<>>

SpecSim == InitSim /\ [][NextCalls]_vars

\* the caller also writes into the arrays it holds
NextFuel ==
    \/ NextCalls
    \/ \E ref \in {ctorArg, exported}, i \in 1..(MaxIso * (MaxAppends + 1)) :
           callerWrite(ref, i)

SpecFuel == InitFuel /\ [][NextFuel]_vars

\* =================================== decayPreProcessing.childIsotopes
\* the decay modes of the raw data, and one that is not defined
DecayModes == {"B-", "A", "EC", "B+", "EP", "P", "SF", "IT", "X"}

\* decayModes == None, the stable isotope case
NoModes == <<"None">>

\* the lists of decay modes of an isotope
ModeLists == (SeqsUpTo(DecayModes, MaxModes) \ {<<>>}) \cup {NoModes}

\* the branch of "IT": one metastable state down; any other state is only
\* reported on the console
ITStep(meta) ==
    IF meta = Meta1 THEN Ground ELSE IF meta = Meta2 THEN Meta1 ELSE meta

\* the loop over decayModes: Z, A and meta are assigned in the loop and kept
\* from one mode to the next
RECURSIVE ModeLoop(_, _, _, _, _)
ModeLoop(decayModes, Z, A, meta, children) ==
    IF decayModes = <<>> THEN [err |-> "none", children |-> children]
    ELSE LET decayMode == Head(decayModes)
             Z1 == CASE decayMode = "B-" -> Z + 1
                     [] decayMode = "A" -> Z - 2
                     [] decayMode \in {"EC", "B+", "P"} -> Z - 1
                     [] OTHER -> Z
             A1 == CASE decayMode = "A" -> A - 4
                     [] decayMode \in {"EP", "P"} -> A - 1
                     [] OTHER -> A
             meta1 == IF decayMode = "IT" THEN ITStep(meta) ELSE meta
         IN IF decayMode = "SF"
            THEN [err |-> "none", children |-> <<SF>>]        \* return ["SF"]
            ELSE IF decayMode \notin {"B-", "A", "EC", "B+", "EP", "P", "IT"}
            THEN [err |-> "ValueError", children |-> <<>>]
            ELSE ModeLoop(Tail(decayModes), Z1, A1, meta1,
                          Append(children,
                                 Format03d(Z1) \o Format03d(A1) \o meta1))

\* Z = parent[0:3], A = parent[3:6], meta = parent[6:10]
childIsotopes(parent, decayModes) ==
    IF decayModes = NoModes THEN [err |-> "none", children |-> <<>>]
    ELSE ModeLoop(decayModes, DigitsToInt(SubSeq(parent, 1, 3)),
                  DigitsToInt(SubSeq(parent, 4, 6)), SubSeq(parent, 7, 10),
                  <<>>)

\* ------------------------------------------------------- names scenario
\* americium 242 in its first and second metastable state, helium 4
Am242m1 == <<0, 9, 5, 2, 4, 2, 0, 0, 0, 1>>
Am242m2 == <<0, 9, 5, 2, 4, 2, 0, 0, 1, 0>>
He4 == <<0, 0, 2, 0, 0, 4, 0, 0, 0, 0>>

\* the canonical codes handed to the name functions
NameCodes == {U238, Th234, U235, Am242m1, Am242m2, He4}

\* the mass and atomic number changes of the reaction table
DeltaAs == {-4, -1, 0, 1, FP}
DeltaZs == {-2, -1, 0, NoneZ}

\* the name functions keep nothing from one call to the next: one call is
\* made in a behaviour
NoCallYet == lastCall.op = "none"

\* batemanMatrix.isotopeChange is a static method: a call changes no object
isotopeChangeCall(isoName, deltaA, deltaZ, deltaM) ==
    /\ NoCallYet
    /\ \E res \in {isotopeChange(isoName, deltaA, deltaZ, deltaM)} :
         lastCall' = CallRet("isotopeChange",
                             <<isoName, deltaA, deltaZ, deltaM>>,
                             res.err, res.name)
    /\ UNCHANGED <<builderVars, fuelVars, schemeVars, xsVars, durations>>

\* childIsotopes is a static method as well
childIsotopesCall(parent, decayModes) ==
    /\ NoCallYet
    /\ \E res \in {childIsotopes(parent, decayModes)} :
         lastCall' = CallRet("childIsotopes", <<parent, decayModes>>,
                             res.err, res.children)
    /\ UNCHANGED <<builderVars, fuelVars, schemeVars, xsVars, durations>>

NextNames ==
    \/ \E isoName \in NameCodes, deltaA \in DeltaAs, deltaZ \in DeltaZs,
          deltaM \in DeltaMs :
           isotopeChangeCall(isoName, deltaA, deltaZ, deltaM)
    \/ \E parent \in NameCodes, decayModes \in ModeLists :
           childIsotopesCall(parent, decayModes)

\* no object is involved
InitNames ==
    /\ built = FALSE
    /\ trackedIsotopes = <<>>
    /\ BM = Zeros(0)
    /\ decayData = <<>>
    /\ nDecay = 0
    /\ NoBuildCalls
    /\ NoHomogenizer
    /\ xsData = <<>>
    /\ NoFuelSystem
    /\ durations = NotTimed
    /\ reactorBM = Zeros(1)
    /\ NoScheme
    /\ lastCall = Call("none", "none")

\* the two name functions called on canonical codes
SpecNames == InitNames /\ [][NextNames]_vars

\* ==================================== CrossSectionHomogenizer.__init__
\* energy_spectrum=None selects the default thermal spectrum
homogenizerInit(spectrum) ==
    /\ energy_spectrum = NoneSpectrum
    /\ energy_spectrum' = SpectrumOf(spectrum)
    /\ cache' = <<>>
    /\ loaded_nuclides' = <<>>
    /\ lastCall' = CallWith("CrossSectionHomogenizer", spectrum, "none")
    /\ UNCHANGED <<builderVars, fuelVars, schemeVars, durations>>

\* ============================ CrossSectionHomogenizer.load_nuclide_data
\* the ENDF files are named by the code of their nuclide; xsData[<<file, mt>>]
\* is the spectrum weighted average of reaction mt of the file under the
\* spectrum of the object, NoReaction when the file has no such reaction and
\* NoFile when there is no such file
FileExists(files, path) ==
    \E k \in DOMAIN files : k[1] = path /\ files[k] # NoFile

\* a nuclide already loaded is kept; a missing file raises; otherwise the
\* data of the file is stored under the name of the nuclide
LoadNuclide(files, loaded, path, nuclide) ==
    IF nuclide \in DOMAIN loaded THEN [err |-> "none", loaded |-> loaded]
    ELSE IF ~FileExists(files, path)
    THEN [err |-> "FileNotFoundError", loaded |-> loaded]
    ELSE [err |-> "none", loaded |-> (nuclide :> path) @@ loaded]

load_nuclide_data(path, nuclide) ==
    /\ energy_spectrum # NoneSpectrum
    /\ \E res \in {LoadNuclide(xsData, loaded_nuclides, path, nuclide)} :
         /\ loaded_nuclides' = res.loaded
         /\ lastCall' = CallWith("load_nuclide_data", nuclide, res.err)
    /\ UNCHANGED <<builderVars, fuelVars, schemeVars, durations,
                   energy_spectrum, cache>>

\* ============================= CrossSectionHomogenizer.get_one_group_xs
\* the reactions asked for
QueryMTs == {4, 18}

\* a slip that would enter the key in the cache before the data is looked up
OneGroupXSKeyFirst(files, c, loaded, path, nuclide, mt) ==
    LET cache_key == <<nuclide, mt>>
        ld == LoadNuclide(files, loaded, path, nuclide)
        c0 == IF cache_key \in DOMAIN c THEN c ELSE (cache_key :> 0) @@ c
    IN IF cache_key \in DOMAIN c
       THEN [err |-> "none", ret |-> c[cache_key], cache |-> c,
             loaded |-> loaded]
       ELSE IF ld.err # "none"
       THEN [err |-> ld.err, ret |-> 0, cache |-> c0, loaded |-> loaded]
       ELSE IF files[<<ld.loaded[nuclide], mt>>] = NoReaction
       THEN [err |-> "ValueError", ret |-> 0, cache |-> c0,
             loaded |-> ld.loaded]
       ELSE [err |-> "none", ret |-> files[<<ld.loaded[nuclide], mt>>],
             cache |-> (cache_key :> files[<<ld.loaded[nuclide], mt>>]) @@ c,
             loaded |-> ld.loaded]

\* a cached key returns the stored value; otherwise the nuclide is loaded if
\* it is not, the reaction is looked up in the loaded data, and the weighted
\* average is stored in the cache and returned
OneGroupXS(files, c, loaded, path, nuclide, mt) ==
    LET cache_key == <<nuclide, mt>>
        ld == LoadNuclide(files, loaded, path, nuclide)
    IN IF cache_key \in DOMAIN c
       THEN [err |-> "none", ret |-> c[cache_key], cache |-> c,
             loaded |-> loaded]
       ELSE IF ld.err # "none"
       THEN [err |-> ld.err, ret |-> 0, cache |-> c, loaded |-> loaded]
       ELSE IF files[<<ld.loaded[nuclide], mt>>] = NoReaction
       THEN [err |-> "ValueError", ret |-> 0, cache |-> c,
             loaded |-> ld.loaded]
       ELSE [err |-> "none", ret |-> files[<<ld.loaded[nuclide], mt>>],
             cache |-> (cache_key :> files[<<ld.loaded[nuclide], mt>>]) @@ c,
             loaded |-> ld.loaded]

get_one_group_xs(path, nuclide, mt) ==
    /\ energy_spectrum # NoneSpectrum
    /\ \E res \in {OneGroupXS(xsData, cache, loaded_nuclides, path, nuclide,
                              mt)} :
         /\ cache' = res.cache
         /\ loaded_nuclides' = res.loaded
         /\ lastCall' = CallRet("get_one_group_xs", <<nuclide, mt>>, res.err,
                                res.ret)
    /\ UNCHANGED <<builderVars, fuelVars, schemeVars, durations,
                   energy_spectrum>>

\* ------------------------------------------------- homogenizer scenario
NextXS ==
    \/ \E spectrum \in Spectra \cup {NoneSpectrum} : homogenizerInit(spectrum)
    \/ \E path \in Codes, nuclide \in Codes : load_nuclide_data(path, nuclide)
    \/ \E path \in Codes, nuclide \in Codes, mt \in QueryMTs :
           get_one_group_xs(path, nuclide, mt)

\* no homogenizer yet, and the ENDF files on disk
InitXS ==
    /\ built = FALSE
    /\ trackedIsotopes = <<>>
    /\ BM = Zeros(0)
    /\ decayData = <<>>
    /\ nDecay = 0
    /\ NoBuildCalls
    /\ NoHomogenizer
    /\ xsData \in XSTables
    /\ NoFuelSystem
    /\ durations = NotTimed
    /\ reactorBM = Zeros(1)
    /\ NoScheme
    /\ lastCall = Call("none", "none")

\* a homogenizer used through its interface
SpecXS == InitXS /\ [][NextXS]_vars

\* ---------------------------------------------------- builder properties
\* the first addDecay call on a fresh builder has just ended
FirstDecayCall == built /\ nDecay = 1 /\ lastCall.op = "addDecay"

Tracked(code) == \E i \in 1..Len(trackedIsotopes) : trackedIsotopes[i] = code

InTable(j) == trackedIsotopes[j] \in DOMAIN decayData

RecordOf(j) == decayData[trackedIsotopes[j]]

\* sum of decayConst * branchProb over the (child, branchProb) pairs of
\* record rec whose child is the isotope code
RECURSIVE BranchSum(_, _, _)
BranchSum(rec, code, k) ==
    IF k > Min(Len(rec.childNames), Len(rec.childProbs)) THEN 0
    ELSE (IF rec.childNames[k] = code
          THEN (rec.decayConst * rec.childProbs[k]) \div ProbDen ELSE 0)
         + BranchSum(rec, code, k + 1)

\* the entry the decay record of parent j prescribes at (row i, column j)
ExpectedDecay(i, j) ==
    (IF i = j THEN -RecordOf(j).decayConst ELSE 0)
    + BranchSum(RecordOf(j), trackedIsotopes[i], 1)

\* every tracked isotope has a record with a list of probabilities
AllTrackedDecaying ==
    \A j \in 1..Len(trackedIsotopes) : InTable(j) /\ ~RecordOf(j).childProbsNone

HasUntrackedChild(j) ==
    \E k \in 1..Len(RecordOf(j).childNames) : ~Tracked(RecordOf(j).childNames[k])

\* C1: after one addDecay call on the zero matrix of a builder over distinct
\* tracked isotopes, every column j whose parent has a decay record holds
\* -decayConst_j on the diagonal plus decayConst_j * branchProb summed over
\* the branches of j whose child is tracked isotope i in row i; untracked
\* children add nothing and do not make the call fail.
C1_DecayEntries ==
    /\ (FirstDecayCall /\ AllTrackedDecaying) => lastCall.err = "none"
    /\ (FirstDecayCall /\ lastCall.err = "none" /\ NoDuplicates(trackedIsotopes))
         => \A j \in 1..Len(trackedIsotopes) :
              InTable(j) =>
                \A i \in 1..Len(trackedIsotopes) : BM[i][j] = ExpectedDecay(i, j)

\* a two isotope chain with a tracked and an untracked branch has been built
C1_Witness ==
    /\ FirstDecayCall /\ lastCall.err = "none"
    /\ trackedIsotopes = <<U238, Th234>>
    /\ AllTrackedDecaying
    /\ HasUntrackedChild(1)
    /\ BM[2][1] > 0

\* tracked isotopes without a record in decayData
Absent(j) == ~InTable(j)

\* C2: a tracked parent absent from the decay table does not make addDecay
\* fail and is treated as stable: its column receives nothing, wherever it
\* sits in the tracked list, and the other parents contribute as usual.
C2_AbsentParentIsStable ==
    (/\ FirstDecayCall
     /\ NoDuplicates(trackedIsotopes)
     /\ \E j \in 1..Len(trackedIsotopes) : Absent(j)
     /\ \A j \in 1..Len(trackedIsotopes) :
            InTable(j) => ~RecordOf(j).childProbsNone)
    => /\ lastCall.err = "none"
       /\ \A j \in 1..Len(trackedIsotopes) :
            \A i \in 1..Len(trackedIsotopes) :
                BM[i][j] = IF Absent(j) THEN 0 ELSE ExpectedDecay(i, j)

\* every record of the table has probabilities summing to at most 1
\* (decay constants are >= 0 and probabilities in [0,1] by construction)
ProperTable ==
    \A code \in DOMAIN decayData : SumSeq(decayData[code].childProbs) <= ProbDen

\* parent j has a record whose children are all tracked and whose
\* probabilities sum to 1
ClosedParent(j) ==
    /\ InTable(j)
    /\ ~RecordOf(j).childProbsNone
    /\ ~HasUntrackedChild(j)
    /\ SumSeq(RecordOf(j).childProbs) = ProbDen

\* C3: a matrix built by addDecay only, from proper records, has every
\* off-diagonal entry >= 0 and every column sum <= 0; the column of a parent
\* whose children are all tracked and whose probabilities sum to 1 sums to 0.
C3_DecayGenerator ==
    (built /\ ProperTable) =>
        \A j \in 1..Len(trackedIsotopes) :
            /\ \A i \in 1..Len(trackedIsotopes) : i # j => BM[i][j] >= 0
            /\ ColumnSum(BM, j) <= 0
            /\ ClosedParent(j) => ColumnSum(BM, j) = 0

\* a closed column with a non-zero rate next to a column that loses mass
C3_Witness ==
    /\ built /\ ProperTable /\ nDecay >= 1 /\ lastCall.err = "none"
    /\ Len(trackedIsotopes) = 2
    /\ ClosedParent(1) /\ BM[1][1] < 0 /\ BM[2][1] > 0
    /\ ColumnSum(BM, 2) < 0

\* C10: constructing a builder fails when the tracked list is empty or holds
\* a code twice, so every constructed builder has N >= 1 distinct isotopes.
C10_ValidTrackedSet ==
    built => Len(trackedIsotopes) >= 1 /\ NoDuplicates(trackedIsotopes)

\* ------------------------------------------------ fuel system properties
\* the step leaves the current vector and the history as they were
FuelUntouched == con' = con /\ history' = history /\ heap' = heap

AllFinite(v) == \A i \in 1..Len(v) : IsFinite(v[i])

LastRow(data, n) == SubSeq(data, Len(data) - n + 1, Len(data))

\* C4: after construction with N isotopes and k successful timeSimulate, repo
\* (or appendHistory) calls in any order, exportHistory() returns k+1 rows of
\* N columns: row 0 is the initial vector, row i the vector the i-th call
\* produced, and the last row is the current vector.
C4_HistoryRows ==
    fsBuilt =>
        /\ ExportedRows = log
        /\ Len(HistoryData) = Len(log) * Len(iso)
        /\ \A r \in 1..Len(ExportedRows) : Len(ExportedRows[r]) = Len(iso)
        /\ ExportedRows[Len(ExportedRows)] = ConVec

\* a reprocessing has followed another successful call, each with a new vector
C4_Witness ==
    /\ fsBuilt
    /\ Len(log) = 3
    /\ lastCall.op = "repo" /\ lastCall.err = "none"
    /\ log[2] # log[1] /\ log[3] # log[2]

\* C5: the history is append-only: over every timeSimulate, repo and
\* appendHistory call, successful or failing, the history before the call is
\* a prefix of the history after it.
C5_AppendOnly ==
    [][(fsBuilt /\ lastCall'.op \in {"timeSimulate", "repo", "appendHistory"})
          => IsPrefix(HistoryData, HistoryData')]_vars

\* a direct appendHistory call has added the third row
C5_Witness ==
    /\ fsBuilt
    /\ Len(log) = 3
    /\ lastCall.op = "appendHistory" /\ lastCall.err = "none"

\* C6: appendHistory with a vector whose length differs from the isotope
\* count raises an error and leaves con and history as they were.
C6_WrongLengthRejected ==
    [][(fsBuilt /\ lastCall'.op = "appendHistory" /\ lastCall'.arg # dataLength)
          => (lastCall'.err = "ValueError" /\ FuelUntouched)]_vars

\* a vector of the wrong length has been refused after rows were recorded
C6_Witness ==
    /\ fsBuilt
    /\ Len(log) >= 2
    /\ lastCall.op = "appendHistory" /\ lastCall.arg # dataLength
    /\ lastCall.err = "ValueError"

\* C7: a caller writing into the array exportHistory() returned, or into the
\* array it passed to the constructor, never changes the rows a later
\* exportHistory() returns nor the current vector.
C7_NoOutsideChange ==
    [][(lastCall'.op = "write")
          => (ExportedRows' = ExportedRows /\ ConVec' = ConVec)]_vars

\* C8: timeSimulate with time = 0 on a fuel system of matching size applies
\* the identity propagator: one row is appended, it is the new current vector,
\* and the new current vector of finite numbers equals the previous one.
C8_ZeroTimeIdentity ==
    [][(/\ fsBuilt
        /\ lastCall'.op = "timeSimulate" /\ lastCall'.arg = 0
        /\ Len(reactorBM) = dataLength)
          => /\ lastCall'.err = "none"
             /\ Len(HistoryData') = Len(HistoryData) + dataLength
             /\ IsPrefix(HistoryData, HistoryData')
             /\ LastRow(HistoryData', dataLength) = ConVec'
             /\ AllFinite(ConVec) => ConVec' = ConVec]_vars

\* a zero duration step has been made with a transfer matrix on a vector
\* that a step of duration 1 would have changed
C8_Witness ==
    /\ fsBuilt
    /\ lastCall = CallWith("timeSimulate", 0, "none")
    /\ Len(reactorBM) = dataLength
    /\ AllFinite(ConVec)
    /\ MatVec(Expm(reactorBM), ConVec) # ConVec

\* C9: timeSimulate on a fuel system whose isotope count differs from the
\* dimension of the reactor's matrix, or on an argument that is no
\* fuelSystem, fails with an error and leaves con and history unchanged.
C9_SizeMismatchRejected ==
    [][(\/ fsBuilt /\ lastCall'.op = "timeSimulate"
                   /\ Len(reactorBM) # dataLength
        \/ lastCall'.op = "timeSimulateOther")
          => (lastCall'.err = "ValueError" /\ FuelUntouched)]_vars

\* a matrix of another size has been refused after rows were recorded
C9_Witness ==
    /\ fsBuilt
    /\ Len(log) >= 2
    /\ Len(reactorBM) # dataLength
    /\ lastCall.op = "timeSimulate" /\ lastCall.err = "ValueError"

\* ------------------------------------------------------ build properties
\* C11: a second addDecay call with the same decay table on a fresh builder
\* makes every entry exactly twice the entry the first call alone produced.
C11_SecondCallDoubles ==
    [][(built /\ nDecay = 1 /\ lastCall'.op = "addDecay")
          => \A i, j \in 1..Len(trackedIsotopes) : BM'[i][j] = 2 * BM[i][j]]_vars

\* two calls have been made on a chain with a tracked child
C11_Witness ==
    /\ built /\ nDecay = 2
    /\ lastCall.op = "addDecay" /\ lastCall.err = "none"
    /\ Len(trackedIsotopes) = 2
    /\ BM[1][1] < 0 /\ BM[2][1] > 0

\* the matrix of a builder after n addDecay calls, starting from bm
RECURSIVE DecayTimes(_, _)
DecayTimes(bm, n) ==
    IF n = 0 THEN bm
    ELSE DecayTimes(DecayResult(bm, trackedIsotopes, decayData).BM, n - 1)

\* the matrix of a builder after n addTransmutations calls, starting from bm
RECURSIVE TransTimes(_, _)
TransTimes(bm, n) ==
    IF n = 0 THEN bm
    ELSE TransTimes(TransResult(bm, trackedIsotopes, xsData).BM, n - 1)

\* C12: the build operations commute: whatever the order in which addDecay,
\* addTransmutations and addFissionYields were called, the matrix equals,
\* entry for entry, the one obtained by making the same addDecay calls first
\* and the same addTransmutations calls after them.
C12_BuildCommutes ==
    built
        => BM = TransTimes(DecayTimes(Zeros(Len(trackedIsotopes)), nDecay), nTrans)

\* addDecay has been called after addTransmutations and addFissionYields, and
\* both have left rates in the matrix
C12_Witness ==
    /\ built
    /\ lastCall.op = "addDecay"
    /\ nTrans >= 1 /\ nFission >= 1
    /\ Len(trackedIsotopes) = 2
    /\ BM[1][2] > 0
    /\ BM[2][1] > BM[1][2]

\* a build call: one that accumulates rates into the matrix
BuildOps == {"addDecay", "addTransmutations"}

\* C13: the matrix exportBatemanMatrix returned is isolated from the builder:
\* a write of the caller into it never changes the builder's matrix, and no
\* addDecay or addTransmutations call made after the export changes the matrix
\* the caller or a reactor holds.
C13_ExportIsolated ==
    [][/\ (lastCall'.op = "writeBM") => BM' = BM
       /\ (exportedBM # 0 /\ lastCall'.op \in BuildOps)
             => MatrixAt(exportedBM)' = MatrixAt(exportedBM)
       /\ (reactorRef # 0 /\ lastCall'.op \in BuildOps)
             => MatrixAt(reactorRef)' = MatrixAt(reactorRef)]_vars

\* every cross section the table can be asked for is there
XSAvailable == \A k \in DOMAIN xsData : xsData[k] > 0

\* the rate of reaction rxn on the target of column j
RateOf(j, rxnIndex) ==
    xsData[<<trackedIsotopes[j], transmutationRxns[rxnIndex].MT>>] * totalFlux

\* reaction rxnIndex turns the target of column j into the isotope of row i
Produces(j, rxnIndex, i) ==
    LET rxn == transmutationRxns[rxnIndex]
        prod == isotopeChange(trackedIsotopes[j], rxn.A, rxn.Z, NoneM)
    IN rxn.A # FP /\ prod.err = "none" /\ prod.name = trackedIsotopes[i]

\* what the reactions from rxnIndex on are to add at (row i, column j): the
\* rate at the product's row, minus the rate on the diagonal
RECURSIVE ExpectedRate(_, _, _)
ExpectedRate(i, j, rxnIndex) ==
    IF rxnIndex > Len(transmutationRxns) THEN 0
    ELSE (IF Produces(j, rxnIndex, i) THEN RateOf(j, rxnIndex) ELSE 0)
         - (IF i = j /\ \E p \in 1..Len(trackedIsotopes) : Produces(j, rxnIndex, p)
            THEN RateOf(j, rxnIndex) ELSE 0)
         + ExpectedRate(i, j, rxnIndex + 1)

\* C14: for each tracked target and each reaction whose product is tracked,
\* addTransmutations adds the rate at (product row, target column) and
\* subtracts it at (target row, target column) and changes nothing else, so
\* no column sum changes.
C14_TransmutationEntries ==
    [][(/\ built /\ NoDuplicates(trackedIsotopes) /\ XSAvailable
        /\ lastCall'.op = "addTransmutations")
          => \A j \in 1..Len(trackedIsotopes) :
                /\ ColumnSum(BM', j) = ColumnSum(BM, j)
                /\ \A i \in 1..Len(trackedIsotopes) :
                      BM'[i][j] = BM[i][j] + ExpectedRate(i, j, 1)]_vars

\* C15: with the cross sections at hand, addTransmutations completes normally
\* for every non-empty tracked list: the fission entry does not reach the
\* isotope arithmetic and an untracked product is skipped.
C15_TransmutationsComplete ==
    [][(/\ built /\ Len(trackedIsotopes) >= 1 /\ XSAvailable
        /\ lastCall'.op = "addTransmutations")
          => lastCall'.err = "none"]_vars

\* the fission rate of the target of column j: MT 18
FissionRate(j) == xsData[<<trackedIsotopes[j], 18>>] * totalFlux

\* C16: addFissionYields decrements the diagonal entry of every tracked
\* fissionable isotope by its total fission rate (and adds rate times yield
\* at the rows of the tracked fission products).
C16_FissionDiagonal ==
    [][(/\ built /\ NoDuplicates(trackedIsotopes) /\ XSAvailable
        /\ lastCall'.op = "addFissionYields")
          => \A j \in 1..Len(trackedIsotopes) :
                trackedIsotopes[j] \in fissionable
                   => BM'[j][j] = BM[j][j] - FissionRate(j)]_vars

\* ------------------------------------------------ reprocessing properties
\* add + mult . c with mult as a matrix, before any renormalisation
Unnormalised(self, c) ==
    [i \in 1..Len(c) |->
        RAdd(self.add.data[i],
             RSum([k \in 1..Len(c) |-> RMul(R(self.mult[i][k]), c[k])]))]

\* the repo call of the step is made on a fuel system of the scheme's size
RepoStep ==
    fsBuilt /\ lastCall'.op = "repo" /\ Len(scheme.mult) = dataLength

C18_RenormalisedSumsToOne ==
    [][(/\ RepoStep /\ scheme.reNorm
        /\ AllFinite(ConVec)
        /\ RSum(Unnormalised(scheme, ConVec)) # R(0))
          => /\ lastCall'.err = "none"
             /\ RSum(ConVec') = R(1)
             /\ ConVec' = [i \in 1..dataLength |->
                             RDiv(Unnormalised(scheme, ConVec)[i],
                                  RSum(Unnormalised(scheme, ConVec)))]]_vars

\* C19: repo with reNorm = True on a vector whose add + mult . c sums to zero
\* fails with an error and appends nothing.
C19_ZeroSumRejected ==
    [][(/\ RepoStep /\ scheme.reNorm
        /\ AllFinite(ConVec)
        /\ RSum(Unnormalised(scheme, ConVec)) = R(0))
          => (lastCall'.err # "none" /\ FuelUntouched)]_vars

\* the same given vector led to the same new vector in all the calls seen
SameOutcome(seen) ==
    \A a, b \in 1..Len(seen) : seen[a][1] = seen[b][1] => seen[a][2] = seen[b][2]

\* C20: no repo call, failing or not, with or without reNorm, changes the
\* scheme's add, mult or reNorm, and two calls of the scheme on the same
\* current vector make the same new vector.
C20_SchemeStateless ==
    [][/\ (lastCall'.op = "repo") => scheme' = scheme
       /\ SameOutcome(repoSeen')]_vars

\* a renormalising scheme that adds has been applied twice to one vector
C20_Witness ==
    /\ fsBuilt
    /\ Len(repoSeen) = 2
    /\ repoSeen[1][1] = repoSeen[2][1]
    /\ scheme.reNorm
    /\ scheme.add.data # Unit(dataLength, 0)

\* -------------------------------------------------- isotope name properties
\* the fields of a canonical code ZZZAAAMMMM
ZOf(code) == DigitsToInt(SubSeq(code, 1, 3))
AOf(code) == DigitsToInt(SubSeq(code, 4, 6))
MOf(code) == SubSeq(code, 7, 10)

\* the last four characters of a name
Suffix4(name) == SubSeq(name, Len(name) - 3, Len(name))

\* the metastable state one step up or down: ground <-> m1 <-> m2
ExpectedShift(M, deltaM) ==
    CASE deltaM = "+1" /\ M = Ground -> Meta1
      [] deltaM = "+1" /\ M = Meta1 -> Meta2
      [] deltaM = "-1" /\ M = Meta1 -> Ground
      [] deltaM = "-1" /\ M = Meta2 -> Meta1
      [] OTHER -> M

\* C21: isotopeChange shifts the metastable field ground <-> m1 <-> m2: with
\* deltaM = "+1" a ground code becomes m1 and an m1 code m2, with "-1" each
\* moves one step back, and with None the field is unchanged.
C21_MetastableShift ==
    [][(/\ lastCall'.op = "isotopeChange"
        /\ lastCall'.err = "none"
        /\ lastCall'.arg[2] = 0 /\ lastCall'.arg[3] = 0)
          => Suffix4(lastCall'.ret)
                = ExpectedShift(MOf(lastCall'.arg[1]), lastCall'.arg[4])]_vars

\* C22: for a canonical code, isotopeChange(code, dA, dZ) returns a code of 10
\* characters in the same layout whose mass number is the input's plus dA,
\* whose atomic number is the input's plus dZ and whose metastable field is
\* kept; with dA = dZ = 0 it returns the input, and distinct inputs give
\* distinct outputs.
C22_FieldArithmetic ==
    [][(/\ lastCall'.op = "isotopeChange"
        /\ lastCall'.arg[2] # FP /\ lastCall'.arg[3] # NoneZ
        /\ lastCall'.arg[4] = NoneM
        /\ AOf(lastCall'.arg[1]) + lastCall'.arg[2] \in 0..999
        /\ ZOf(lastCall'.arg[1]) + lastCall'.arg[3] \in 0..999)
          => /\ lastCall'.err = "none"
             /\ Len(lastCall'.ret) = 10
             /\ AOf(lastCall'.ret) = AOf(lastCall'.arg[1]) + lastCall'.arg[2]
             /\ ZOf(lastCall'.ret) = ZOf(lastCall'.arg[1]) + lastCall'.arg[3]
             /\ MOf(lastCall'.ret) = MOf(lastCall'.arg[1])
             /\ (lastCall'.arg[2] = 0 /\ lastCall'.arg[3] = 0)
                   => lastCall'.ret = lastCall'.arg[1]
             /\ \A other \in NameCodes \ {lastCall'.arg[1]} :
                   isotopeChange(other, lastCall'.arg[2], lastCall'.arg[3],
                                 NoneM).name # lastCall'.ret]_vars

\* the parent transformed by one decay mode alone
ExpectedChild(parent, decayMode) ==
    Format03d(ZOf(parent) + (CASE decayMode = "B-" -> 1
                               [] decayMode = "A" -> -2
                               [] decayMode \in {"EC", "B+"} -> -1
                               [] OTHER -> 0))
    \o Format03d(AOf(parent) + (IF decayMode = "A" THEN -4 ELSE 0))
    \o (IF decayMode = "IT" THEN ExpectedShift(MOf(parent), "-1")
        ELSE MOf(parent))

\* C28: childIsotopes returns one child per decay mode, each the parent
\* transformed by that mode alone (B-: Z+1; A: A-4, Z-2; EC and B+: Z-1; IT:
\* one metastable step down), whatever the other modes and their order.
C28_ChildPerMode ==
    [][(/\ lastCall'.op = "childIsotopes"
        /\ \A k \in 1..Len(lastCall'.arg[2]) :
              lastCall'.arg[2][k] \in {"B-", "A", "EC", "B+", "IT"})
          => /\ lastCall'.err = "none"
             /\ Len(lastCall'.ret) = Len(lastCall'.arg[2])
             /\ \A k \in 1..Len(lastCall'.arg[2]) :
                   lastCall'.ret[k]
                      = ExpectedChild(lastCall'.arg[1], lastCall'.arg[2][k])]_vars

\* ------------------------------------------------------ data gap properties
\* the data gaps of one addDecay call: <<j, 0>> for a tracked parent j without
\* a record, <<j, k>> for child k of parent j that is not tracked
DecayGaps ==
    {g \in UNION {{j} \X (0..(IF InTable(j)
                               THEN Len(RecordOf(j).childNames) ELSE 0)) :
                     j \in 1..Len(trackedIsotopes)} :
        IF g[2] = 0 THEN Absent(g[1])
        ELSE ~Tracked(RecordOf(g[1]).childNames[g[2]])}

\* C23: every data gap met while building the matrix (an absent parent, an
\* untracked child or product) is recorded, with a count of the occurrences,
\* in builder state or in a return value the caller can read after the
\* call: addDecay, whose object holds only the tracked list and the matrix,
\* returns the number of gaps it met.
C23_GapsCounted ==
    (FirstDecayCall /\ lastCall.err = "none")
        => lastCall.ret = Cardinality(DecayGaps)

\* C24: addTransmutations weights the cross sections with the
\* energy_spectrum the caller passed: the homogenizer it queries holds that
\* spectrum.
C24_SpectrumUsed ==
    [][(lastCall'.op = "addTransmutations")
          => usedSpectrum' = lastCall'.arg]_vars

\* tracked isotope j has the record of a stable isotope
Stable(j) == InTable(j) /\ RecordOf(j) = StableRecord

\* C26: a tracked isotope with the record of a stable isotope (decay constant
\* 0, no children, child probabilities null) makes addDecay neither fail nor
\* change the matrix: its column stays zero and the other tracked isotopes
\* are processed.
C26_StableRecordHarmless ==
    (/\ FirstDecayCall
     /\ NoDuplicates(trackedIsotopes)
     /\ \A j \in 1..Len(trackedIsotopes) : InTable(j)
     /\ \E j \in 1..Len(trackedIsotopes) : Stable(j))
    => /\ lastCall.err = "none"
       /\ \A j \in 1..Len(trackedIsotopes) :
            \A i \in 1..Len(trackedIsotopes) :
                BM[i][j] = IF Stable(j) THEN 0 ELSE ExpectedDecay(i, j)

\* ------------------------------------------------ accumulation properties
\* the vector v propagated over the time t
Propagated(t, v) == MatVec(Expm(Scale(reactorBM, t)), v)

\* the rows rows end with one row per duration of ts: each is the row before
\* the first of them propagated over the time elapsed since, t1 + ... + ti
RowsAccumulate(rows, ts) ==
    \A i \in 1..Len(ts) :
        rows[Len(rows) - Len(ts) + i]
            = Propagated(SumSeq(SubSeq(ts, 1, i)), rows[Len(rows) - Len(ts)])

CacheKeysLoaded ==
    \A key \in DOMAIN cache : key[1] \in DOMAIN loaded_nuclides

\* C27: the cache is transparent: the nuclide of every cache key is in
\* loaded_nuclides; a get_one_group_xs call for a cached (nuclide, mt) returns
\* the stored value and changes neither cache nor loaded_nuclides; a call
\* that raises adds no cache entry.
C27_CacheTransparent ==
    [][/\ CacheKeysLoaded'
       /\ (lastCall'.op = "get_one_group_xs")
             => /\ (lastCall'.arg \in DOMAIN cache)
                     => /\ lastCall'.err = "none"
                        /\ lastCall'.ret = cache[lastCall'.arg]
                        /\ cache' = cache
                        /\ loaded_nuclides' = loaded_nuclides
                /\ (lastCall'.err # "none") => cache' = cache]_vars

\* a call for a reaction the loaded file lacks has raised while another
\* reaction of the same nuclide is cached
C27_Witness ==
    /\ lastCall.op = "get_one_group_xs"
    /\ lastCall.err = "ValueError"
    /\ lastCall.arg[2] = 18
    /\ <<lastCall.arg[1], 4>> \in DOMAIN cache
    /\ lastCall.arg \notin DOMAIN cache

\* ------------------------------------------------------- shape properties
\* the vector, the isotope list and the history agree in length
FuelShape ==
    fsBuilt => /\ Len(ConVec) = dataLength
               /\ dataLength = Len(iso)
               /\ Len(HistoryData) % dataLength = 0

\* C29: in every state of a fuelSystem the current vector has dataLength
\* entries, dataLength is the number of isotopes and the history size is a
\* multiple of dataLength; construction with lists of different lengths is
\* rejected with ValueError.
C29_FuelShape ==
    [][/\ FuelShape'
       /\ (lastCall'.op = "fuelSystem" /\ lastCall'.arg # 0)
             => (lastCall'.err = "ValueError" /\ ~fsBuilt')]_vars

\* a propagation has added the third vector to a system of several isotopes
C29_Witness ==
    /\ fsBuilt
    /\ dataLength > 1
    /\ lastCall.op = "timeSimulate" /\ lastCall.err = "none"
    /\ Len(HistoryData) = 3 * dataLength
    /\ Len(ConVec) = Len(iso)

====
